---- MODULE Spec2Model ----
(***************************************************************************)
(* Lead Generation API server (handlers.js + index.js).                    *)
(*                                                                         *)
(* One request is followed from its arrival at a route (or at an exported  *)
(* handler) to its HTTP response.  Every await of the code is a step       *)
(* boundary: the synchronous code up to the next await is one action, and  *)
(* the upstream service's answer is the input of the next action.          *)
(***************************************************************************)
EXTENDS Integers, Sequences, FiniteSets, TLC

VARIABLES
    env,         \* process.env: which credentials are configured
    entry,       \* the route (or exported handler) the request arrived at
    body,        \* req.body of the request
    pc,          \* where the request's handling is suspended
    i,           \* googleSearchHandler: loop index
    allResults,  \* googleSearchHandler: listings collected so far
    net,         \* the upstream calls issued for the request, in order
    doc,         \* the spreadsheet document of the request, upstream
    exportData,  \* the data handed to the export step (req.body.data there)
    responses,   \* what was written to the client's res, in order
    values,      \* createSpreadsheetHandler: the rows built for the spreadsheet
    worksheetData \* exportToExcelHandler: the rows built for the file

vars == <<env, entry, body, pc, i, allResults, net, doc, exportData, responses,
          values, worksheetData>>

-----------------------------------------------------------------------------
(* Bounds of the model *)

\* requested maxResults range over -MaxNegative .. MaxRequested, or are omitted
MaxNegative == 1
MaxRequested == 21
\* length of the data array given to an exported export handler called directly
MaxData == 2
\* length of the listing sequences the two row builders are compared on
MaxRows == 2

(* Program constants *)

DefaultMaxResults == 50
PageSize == 10

-----------------------------------------------------------------------------
(* Requests *)

SearchRoutes == {"/api/search", "/google_search"}
CompositeRoutes == {"/api/search-to-spreadsheet", "/api/search-to-excel"}
DirectHandlers == {"createSpreadsheetHandler", "exportToExcelHandler"}
Entries == SearchRoutes \cup CompositeRoutes \cup DirectHandlers

\* jobTitle of a body: not there, "", a non-empty string, or a truthy value
\* that is no string (a number, an array, an object)
JobTitles == {"absent", "empty", "string", "nonstring"}

\* maxResults of a body: given (an integer) or omitted
MaxResultsChoices ==
    {[given |-> FALSE, val |-> 0]}
        \cup {[given |-> TRUE, val |-> v] : v \in (0 - MaxNegative)..MaxRequested}

\* title, link, snippet of one item of an upstream page
GoodLink == "https://www.linkedin.com/jobs/view/1"
BadLink == "linkedin.com/jobs/view/1"
RawItem(link) == [title |-> "Looking for Engineer", link |-> link, snippet |-> "We are looking for"]

ValidUrl(link) == link = GoodLink

Hostname(link) == IF link = GoodLink THEN "www.linkedin.com" ELSE "invalid"

FormatItem(item) ==
    [title |-> item.title, link |-> item.link, snippet |-> item.snippet,
     source |-> Hostname(item.link)]

Listing == FormatItem(RawItem(GoodLink))

\* a data value: "missing" (undefined), "notArray" (a string, a number, an
\* object), or an array of listings; "none" when no export step was started
NoData == [kind |-> "none", items |-> <<>>]
MissingData == [kind |-> "missing", items |-> <<>>]
NotArrayData == [kind |-> "notArray", items |-> <<>>]
ArrayData(items) == [kind |-> "array", items |-> items]

DataChoices ==
    {MissingData, NotArrayData} \cup {ArrayData([k \in 1..n |-> Listing]) : n \in 0..MaxData}

Bodies(e) ==
    IF e \in DirectHandlers
    THEN {[jobTitle |-> "absent", maxResults |-> [given |-> FALSE, val |-> 0], data |-> d] :
             d \in DataChoices}
    ELSE {[jobTitle |-> t, maxResults |-> m, data |-> MissingData] :
             t \in JobTitles, m \in MaxResultsChoices}

\* const { ..., maxResults = 50 } = req.body
MaxResultsOf(b) == IF b.maxResults.given THEN b.maxResults.val ELSE DefaultMaxResults

-----------------------------------------------------------------------------
(* Responses *)

MsgMissingGoogle == "Missing Google API credentials. Set GOOGLE_API_KEY and GOOGLE_CX environment variables."
MsgMissingSheets == "Missing Google Sheets credentials. Set GOOGLE_SHEETS_CREDENTIALS environment variable."
MsgInvalidData == "Invalid data format. Please provide an array of job listings."
MsgMissingJobTitle == "Missing required parameter: jobTitle is required"
MsgInvalidUrl == "Invalid URL"
MsgJsonParse == "\"undefined\" is not valid JSON"
MsgDataLength == "Cannot read properties of undefined (reading 'length')"
MsgDataMap == "data.map is not a function"
MsgReplace == "jobTitle.replace is not a function"

\* the messages of a failing upstream call
UpstreamMsgs == {"Request failed with status code 429", "socket hang up"}

\* res.json({ results })
ResultsResponse(results) ==
    [status |-> 200, kind |-> "results", error |-> "", results |-> results]
\* res.status(code).json({ error })
ErrorResponse(code, msg) ==
    [status |-> code, kind |-> "error", error |-> msg, results |-> <<>>]
\* res.json({ message, jobTitle, location, totalResults, spreadsheetId, spreadsheetUrl })
SummaryResponse(results) ==
    [status |-> 200, kind |-> "summary", error |-> "", results |-> results]
\* res.json({ spreadsheetId, spreadsheetUrl, totalResults })
SheetResponse(results) ==
    [status |-> 200, kind |-> "sheet", error |-> "", results |-> results]
\* res.setHeader(...); res.send(excelBuffer)
FileResponse(results) ==
    [status |-> 200, kind |-> "file", error |-> "", results |-> results]
\* the framework's own error page: next(error) finds no error middleware
\* registered after the route
HtmlErrorResponse(msg) ==
    [status |-> 500, kind |-> "html", error |-> msg, results |-> <<>>]

-----------------------------------------------------------------------------
(* The local state of one request, as a record the handlers transform *)

Fresh ==
    [pc |-> "idle", i |-> 0, allResults |-> <<>>, net |-> <<>>,
     doc |-> [exists |-> FALSE, hasData |-> FALSE, public |-> FALSE],
     exportData |-> NoData, responses |-> <<>>,
     values |-> <<>>, worksheetData |-> <<>>]

Cur ==
    [pc |-> pc, i |-> i, allResults |-> allResults, net |-> net, doc |-> doc,
     exportData |-> exportData, responses |-> responses,
     values |-> values, worksheetData |-> worksheetData]

Become(st) ==
    /\ pc' = st.pc
    /\ i' = st.i
    /\ allResults' = st.allResults
    /\ net' = st.net
    /\ doc' = st.doc
    /\ exportData' = st.exportData
    /\ responses' = st.responses
    /\ values' = st.values
    /\ worksheetData' = st.worksheetData

\* a response is written and the handler returns
Respond(st, r) == [st EXCEPT !.responses = Append(@, r), !.pc = "done"]

\* an upstream call is issued and the handler awaits it
Call(st, api, start, at) ==
    [st EXCEPT !.net = Append(@, [api |-> api, start |-> start, outcome |-> "pending"]),
               !.pc = at]

\* the awaited call returned (outcome "ok") or threw (outcome: its message)
Returned(st, outcome) ==
    [st EXCEPT !.net[Len(st.net)].outcome = outcome]

-----------------------------------------------------------------------------
(* googleSearchHandler *)

\* a slip: the request is refused only when both credentials are unset
CredentialsMissingBoth(e) == ~e.apiKey /\ ~e.cx

\* if (!apiKey || !cx)
CredentialsMissing(e) == ~e.apiKey \/ ~e.cx

\* a slip: Math.floor(maxResults / 10) + 1
MaxRequestsNeededFloor(maxResults) == (maxResults \div PageSize) + 1

\* Math.ceil(maxResults / 10)
MaxRequestsNeeded(maxResults) == 0 - ((0 - maxResults) \div PageSize)

\* for (let i = 0; i < maxRequestsNeeded; i++)
LoopCondition(idx, maxResults) == idx < MaxRequestsNeeded(maxResults)

\* const startIndex = i * 10 + 1
StartIndex(idx) == idx * PageSize + 1

\* if (response.data.items && response.data.items.length > 0)
HasItems(items) == Len(items) > 0

\* if (allResults.length >= maxResults) break
Enough(results, maxResults) == Len(results) >= maxResults

\* a slip: the collected listings are returned uncut
SliceNoLimit(s, end) == s

\* Array.prototype.slice(0, end): a negative end counts from the array's end
Slice(s, end) ==
    LET len == Len(s)
        final == IF end < 0
                 THEN (IF len + end > 0 THEN len + end ELSE 0)
                 ELSE (IF end < len THEN end ELSE len)
    IN  SubSeq(s, 1, final)

\* the items of an upstream page: n of them (num: 10 caps n), the last one
\* with a link that is no absolute URL when ~valid
Page(n, valid) ==
    [k \in 1..n |-> RawItem(IF valid \/ k < n THEN GoodLink ELSE BadLink)]

\* response.data.items.map(...): new URL(item.link) throws on an invalid link
MapThrows(items) == \E k \in 1..Len(items) : ~ValidUrl(items[k].link)
FormattedResults(items) == [k \in 1..Len(items) |-> FormatItem(items[k])]

-----------------------------------------------------------------------------
(* The rows of the two exports *)

\* the value of a property a listing does not have; every other field value
\* of the model is a string of the program
Undefined == "(undefined)"

\* ['Title', 'Link', 'Description', 'Source']
Headers == <<"Title", "Link", "Description", "Source">>

\* v || '': undefined and the empty string are falsy
OrEmpty(v) == IF v = Undefined \/ v = "" THEN "" ELSE v

\* createSpreadsheetHandler: item => [item.title, item.link, item.snippet, item.source]
SheetRow(item) == <<item.title, item.link, item.snippet, item.source>>

\* exportToExcelHandler: item => [item.title || '', item.link || '', ...]
ExcelRow(item) ==
    <<OrEmpty(item.title), OrEmpty(item.link), OrEmpty(item.snippet), OrEmpty(item.source)>>

\* const values = [[...header], ...data.map(...)]
SheetValues(data) == <<Headers>> \o [k \in 1..Len(data) |-> SheetRow(data[k])]

\* const worksheetData = [headers, ...data.map(...)]
WorksheetData(data) == <<Headers>> \o [k \in 1..Len(data) |-> ExcelRow(data[k])]

-----------------------------------------------------------------------------
(* exportToExcelHandler *)

\* a slip: the length test is left out
InvalidDataAllowsEmpty(data) == data.kind # "array"

\* if (!data || !Array.isArray(data) || data.length === 0)
InvalidData(data) ==
    \/ data.kind = "missing"
    \/ data.kind # "array"
    \/ Len(data.items) = 0

ExportToExcelHandler(st, data) ==
    LET st1 == [st EXCEPT !.exportData = data]
    IN  IF InvalidData(data)
        THEN Respond(st1, ErrorResponse(400, MsgInvalidData))
        ELSE Respond([st1 EXCEPT !.worksheetData = WorksheetData(data.items)],
                     FileResponse(data.items))

-----------------------------------------------------------------------------
(* createSpreadsheetHandler *)

\* the handler up to its first await: credentials, then sheets.spreadsheets.create
CreateSpreadsheetHandler(st, data) ==
    LET st1 == [st EXCEPT !.exportData = data]
    IN  CASE env.sheets = "unset" -> Respond(st1, ErrorResponse(500, MsgJsonParse))
          [] env.sheets = "null" -> Respond(st1, ErrorResponse(500, MsgMissingSheets))
          [] OTHER ->
                IF data.kind = "missing"
                THEN Respond(st1, ErrorResponse(500, MsgDataLength))
                ELSE Call(st1, "sheets.create", 0, "await_create")

\* a slip: the permission is granted before the rows are written
AfterCreatePermissionFirst(st) ==
    Call([st EXCEPT !.doc.exists = TRUE], "drive.permissions", 0, "await_permission")

\* after create: the values are built and sheets.spreadsheets.values.update is called
AfterCreate(st) ==
    LET st1 == [st EXCEPT !.doc.exists = TRUE]
    IN  IF st.exportData.kind # "array"
        THEN Respond(st1, ErrorResponse(500, MsgDataMap))
        ELSE Call([st1 EXCEPT !.values = SheetValues(st.exportData.items)],
                  "sheets.update", 0, "await_update")

\* after update: drive.permissions.create is called
AfterUpdate(st) ==
    Call([st EXCEPT !.doc.hasData = TRUE], "drive.permissions", 0, "await_permission")

\* after permissions: res.json(...), which on the composite route is spreadsheetRes.json
AfterPermission(e, st) ==
    LET st1 == [st EXCEPT !.doc.public = TRUE]
    IN  IF e = "/api/search-to-spreadsheet"
        THEN Respond(st1, SummaryResponse(st.exportData.items))
        ELSE Respond(st1, SheetResponse(st.exportData.items))

\* catch (error) { return res.status(500).json({ error: error.message }) }
SheetsCatch(st, msg) == Respond(st, ErrorResponse(500, msg))

-----------------------------------------------------------------------------
(* googleSearchHandler, continued: its res is the route's res or searchRes *)

\* res.json({ results }) of googleSearchHandler
SearchResJson(e, st, results) ==
    CASE e = "/api/search-to-spreadsheet" -> CreateSpreadsheetHandler(st, ArrayData(results))
      [] e = "/api/search-to-excel" -> ExportToExcelHandler(st, ArrayData(results))
      [] OTHER -> Respond(st, ResultsResponse(results))

\* after the loop: const results = allResults.slice(0, maxResults); res.json
SearchDone(e, b, st) == SearchResJson(e, st, Slice(st.allResults, MaxResultsOf(b)))

\* the loop head: the next awaited axios.get, or the loop's end
SearchLoop(e, b, st) ==
    IF LoopCondition(st.i, MaxResultsOf(b))
    THEN Call(st, "search", StartIndex(st.i), "await_search")
    ELSE SearchDone(e, b, st)

\* a slip: a page of fewer than 10 items ends the loop
AfterPageStopsShort(e, b, st, items) ==
    IF Len(items) > 0 /\ (\E k \in 1..Len(items) : ~ValidUrl(items[k].link))
    THEN Respond(st, ErrorResponse(500, MsgInvalidUrl))
    ELSE LET st1 == [st EXCEPT !.allResults =
                        @ \o [k \in 1..Len(items) |-> FormatItem(items[k])]]
         IN  IF Len(items) < PageSize \/ Len(st1.allResults) >= MaxResultsOf(b)
             THEN SearchDone(e, b, st1)
             ELSE SearchLoop(e, b, [st1 EXCEPT !.i = @ + 1])

\* the loop body after the awaited page arrived
AfterPage(e, b, st, items) ==
    IF HasItems(items)
    THEN IF MapThrows(items)
         THEN Respond(st, ErrorResponse(500, MsgInvalidUrl))
         ELSE LET st1 == [st EXCEPT !.allResults = @ \o FormattedResults(items)]
              IN  IF Enough(st1.allResults, MaxResultsOf(b))
                  THEN SearchDone(e, b, st1)
                  ELSE SearchLoop(e, b, [st1 EXCEPT !.i = @ + 1])
    ELSE SearchDone(e, b, st)

\* a slip: a failing page is answered with what was collected before it
SearchCatchPartial(st, msg) == Respond(st, ResultsResponse(st.allResults))

\* catch (error) { return res.status(500).json({ error: error.message }) }
SearchCatch(st, msg) == Respond(st, ErrorResponse(500, msg))

GoogleSearchHandler(e, b, st) ==
    IF CredentialsMissing(env)
    THEN Respond(st, ErrorResponse(500, MsgMissingGoogle))
    ELSE SearchLoop(e, b, [st EXCEPT !.i = 0, !.allResults = <<>>])

-----------------------------------------------------------------------------
(* The routes of index.js *)

\* a slip: if (jobTitle === undefined)
MissingJobTitleUndefinedOnly(t) == t = "absent"

\* if (!jobTitle)
MissingJobTitle(t) == t \in {"absent", "empty"}

\* next(error): the only error middleware is registered before the routes,
\* so the framework's default handler answers
NextError(st, msg) == Respond(st, HtmlErrorResponse(msg))

SearchToSpreadsheetRoute(e, b, st) ==
    IF MissingJobTitle(b.jobTitle)
    THEN Respond(st, ErrorResponse(400, MsgMissingJobTitle))
    ELSE GoogleSearchHandler(e, b, st)

SearchToExcelRoute(e, b, st) ==
    IF MissingJobTitle(b.jobTitle)
    THEN Respond(st, ErrorResponse(400, MsgMissingJobTitle))
    ELSE IF b.jobTitle = "nonstring"
         THEN NextError(st, MsgReplace)
         ELSE GoogleSearchHandler(e, b, st)

Route(e, b, st) ==
    CASE e \in SearchRoutes -> GoogleSearchHandler(e, b, st)
      [] e = "/api/search-to-spreadsheet" -> SearchToSpreadsheetRoute(e, b, st)
      [] e = "/api/search-to-excel" -> SearchToExcelRoute(e, b, st)
      [] e = "createSpreadsheetHandler" -> CreateSpreadsheetHandler(st, b.data)
      [] e = "exportToExcelHandler" -> ExportToExcelHandler(st, b.data)

-----------------------------------------------------------------------------
(* The state machine *)

Envs == [apiKey : BOOLEAN, cx : BOOLEAN, sheets : {"unset", "null", "valid"}]

NoBody == [jobTitle |-> "absent", maxResults |-> [given |-> FALSE, val |-> 0], data |-> MissingData]

Init ==
    /\ env \in Envs
    /\ entry = "none"
    /\ body = NoBody
    /\ pc = Fresh.pc
    /\ i = Fresh.i
    /\ allResults = Fresh.allResults
    /\ net = Fresh.net
    /\ doc = Fresh.doc
    /\ exportData = Fresh.exportData
    /\ responses = Fresh.responses
    /\ values = Fresh.values
    /\ worksheetData = Fresh.worksheetData

\* a request arrives and runs up to its first await or to its response
Receive(e, b) ==
    /\ pc = "idle"
    /\ entry' = e
    /\ body' = b
    /\ Become(Route(e, b, Fresh))
    /\ UNCHANGED env

\* the awaited axios.get resolves with a page of n items
SearchReturnsPage(n, valid) ==
    /\ pc = "await_search"
    /\ Become(AfterPage(entry, body, Returned(Cur, "ok"), Page(n, valid)))
    /\ UNCHANGED <<env, entry, body>>

\* the awaited axios.get rejects
SearchFails(msg) ==
    /\ pc = "await_search"
    /\ Become(SearchCatch(Returned(Cur, msg), msg))
    /\ UNCHANGED <<env, entry, body>>

CreateReturns ==
    /\ pc = "await_create"
    /\ Become(AfterCreate(Returned(Cur, "ok")))
    /\ UNCHANGED <<env, entry, body>>

UpdateReturns ==
    /\ pc = "await_update"
    /\ Become(AfterUpdate(Returned(Cur, "ok")))
    /\ UNCHANGED <<env, entry, body>>

PermissionReturns ==
    /\ pc = "await_permission"
    /\ Become(AfterPermission(entry, Returned(Cur, "ok")))
    /\ UNCHANGED <<env, entry, body>>

\* the awaited spreadsheet or drive call rejects
SheetsCallFails(msg) ==
    /\ pc \in {"await_create", "await_update", "await_permission"}
    /\ Become(SheetsCatch(Returned(Cur, msg), msg))
    /\ UNCHANGED <<env, entry, body>>

\* the request is over: its locals are gone, the server keeps listening
Finish ==
    /\ pc = "done"
    /\ entry' = "none"
    /\ body' = NoBody
    /\ Become(Fresh)
    /\ UNCHANGED env

Next ==
    \/ \E e \in Entries : \E b \in Bodies(e) : Receive(e, b)
    \/ \E n \in 0..PageSize : \E valid \in BOOLEAN : SearchReturnsPage(n, valid)
    \/ \E msg \in UpstreamMsgs : SearchFails(msg)
    \/ CreateReturns
    \/ UpdateReturns
    \/ PermissionReturns
    \/ \E msg \in UpstreamMsgs : SheetsCallFails(msg)
    \/ Finish

Spec == Init /\ [][Next]_vars

\* every awaited upstream call eventually returns or fails
Fairness ==
    /\ WF_vars(\E n \in 0..PageSize : \E valid \in BOOLEAN : SearchReturnsPage(n, valid))
    /\ WF_vars(CreateReturns)
    /\ WF_vars(UpdateReturns)
    /\ WF_vars(PermissionReturns)

LiveSpec == Spec /\ Fairness

-----------------------------------------------------------------------------
(* The two row builders on the same listings *)

\* a field of a listing: not there, empty, or a non-empty string
FieldChoices == {Undefined, "", "x"}

ListingChoices ==
    [title : FieldChoices, link : FieldChoices, snippet : FieldChoices, source : FieldChoices]

\* the non-empty sequences of listings of length up to MaxRows
ListingSeqs == UNION {[1..n -> ListingChoices] : n \in 1..MaxRows}

\* both handlers are handed the same data
RowsInit ==
    /\ env = [apiKey |-> TRUE, cx |-> TRUE, sheets |-> "valid"]
    /\ entry = "none"
    /\ body = NoBody
    /\ pc = Fresh.pc
    /\ i = Fresh.i
    /\ allResults = Fresh.allResults
    /\ net = Fresh.net
    /\ doc = Fresh.doc
    /\ exportData \in {ArrayData(s) : s \in ListingSeqs}
    /\ responses = Fresh.responses
    /\ values = Fresh.values
    /\ worksheetData = Fresh.worksheetData

\* createSpreadsheetHandler builds its values from the data
BuildValues ==
    /\ values = <<>>
    /\ values' = SheetValues(exportData.items)
    /\ UNCHANGED <<env, entry, body, pc, i, allResults, net, doc, exportData,
                   responses, worksheetData>>

\* exportToExcelHandler builds its worksheetData from the data
BuildWorksheetData ==
    /\ ~InvalidData(exportData)
    /\ worksheetData = <<>>
    /\ worksheetData' = WorksheetData(exportData.items)
    /\ UNCHANGED <<env, entry, body, pc, i, allResults, net, doc, exportData,
                   responses, values>>

RowsNext == BuildValues \/ BuildWorksheetData

RowsSpec == RowsInit /\ [][RowsNext]_vars

TypeOK ==
    /\ env \in Envs
    /\ entry \in Entries \cup {"none"}
    /\ pc \in {"idle", "await_search", "await_create", "await_update", "await_permission", "done"}
    /\ i \in 0..(DefaultMaxResults \div PageSize)
    /\ Len(responses) <= 1

-----------------------------------------------------------------------------
(* What the properties speak of *)

\* a request is being handled or was just answered
InRequest == pc # "idle"

\* the maxResults the request asks for
Requested == MaxResultsOf(body)

\* the upstream search calls made for the request
SearchCalls == Cardinality({k \in 1..Len(net) : net[k].api = "search"})

\* the spreadsheet and drive calls made for the request, in order
SheetCalls == SelectSeq(net, LAMBDA c : c.api # "search")

\* the request gets as far as googleSearchHandler
ReachesSearch ==
    \/ entry \in SearchRoutes
    \/ entry = "/api/search-to-spreadsheet" /\ body.jobTitle \in {"string", "nonstring"}
    \/ entry = "/api/search-to-excel" /\ body.jobTitle = "string"

CredentialsConfigured == env.apiKey /\ env.cx

\* the k-th upstream call failed
Failed(k) == net[k].outcome \in UpstreamMsgs

-----------------------------------------------------------------------------
(* C1 *)

\* C1, as stated: whenever the search answers with {results}, or hands its
\* results to the export step of a composite route, their number is at most
\* the requested maxResults (50 when omitted).
C1_AsStated ==
    /\ \A k \in 1..Len(responses) :
          responses[k].kind = "results" => Len(responses[k].results) <= Requested
    /\ (entry \in CompositeRoutes /\ exportData.kind = "array")
          => Len(exportData.items) <= Requested

\* C1, amended: the number of results is at most the requested maxResults
\* when that is 0 or more (50 when omitted), and is 0 when it is negative;
\* the same holds of the results handed to the export step.
C1_ResultsWithinMax ==
    LET limit == IF Requested < 0 THEN 0 ELSE Requested
    IN  /\ \A k \in 1..Len(responses) :
              responses[k].kind = "results" => Len(responses[k].results) <= limit
        /\ (entry \in CompositeRoutes /\ exportData.kind = "array")
              => Len(exportData.items) <= limit

\* the last page overshot the requested count and the answer was cut to it
C1_Witness ==
    /\ pc = "done"
    /\ Len(responses) = 1
    /\ responses[1].kind = "results"
    /\ Requested > 0
    /\ Len(allResults) > Requested
    /\ Len(responses[1].results) = Requested

-----------------------------------------------------------------------------
(* C2 *)

\* C2: with both search credentials configured, a run of googleSearchHandler
\* makes exactly one upstream search call when 1 <= maxResults <= 10, whatever
\* the call returns, and at most two when 10 < maxResults <= 20.
C2_SearchCallCount ==
    (InRequest /\ ReachesSearch /\ CredentialsConfigured) =>
        /\ (Requested \in 1..PageSize) => SearchCalls = 1
        /\ (Requested \in (PageSize + 1)..(2 * PageSize)) => SearchCalls \in 1..2

\* a request for 11 to 20 results that needed its second call
C2_Witness ==
    /\ pc = "done"
    /\ ReachesSearch
    /\ Requested \in (PageSize + 1)..(2 * PageSize)
    /\ SearchCalls = 2

\* a request for at most 10 results whose only call failed
C2_WitnessFailure ==
    /\ pc = "done"
    /\ ReachesSearch
    /\ Requested \in 1..PageSize
    /\ SearchCalls = 1
    /\ Failed(1)

-----------------------------------------------------------------------------
(* C3 *)

\* the first awaited page of a request for 11 to 20 results arrives in this step
FirstPageArrives ==
    /\ pc = "await_search"
    /\ i = 0
    /\ Requested \in (PageSize + 1)..(2 * PageSize)
    /\ net'[1].outcome = "ok"

\* C3, as stated: for maxResults in (10, 20], when the first page holds
\* between 0 and 9 items no second upstream search call is made.
C3_AsStated ==
    [][(FirstPageArrives /\ Len(allResults') < PageSize) => SearchCalls' = 1]_vars

\* C3, amended: for maxResults in (10, 20] the loop stops early only on a
\* page without items: when the first page holds 0 items no second search
\* call is made and the empty collection is what is returned or exported;
\* when it holds 1 to 9 items (with valid links) a second call is made.
C3_StopsOnEmptyPage ==
    [][FirstPageArrives =>
          /\ (Len(allResults') = 0) =>
                /\ SearchCalls' = 1
                /\ pc' # "await_search"
                /\ \/ responses' = <<ErrorResponse(500, MsgInvalidUrl)>>
                   \/ responses' = <<ResultsResponse(<<>>)>>
                   \/ exportData' = ArrayData(<<>>)
          /\ (Len(allResults') \in 1..(PageSize - 1)) =>
                /\ SearchCalls' = 2
                /\ pc' = "await_search"
                /\ responses' = <<>>]_vars

\* a first page of 1 to 9 items was followed by a second call
C3_Witness ==
    /\ pc = "await_search"
    /\ Requested \in (PageSize + 1)..(2 * PageSize)
    /\ Len(allResults) \in 1..(PageSize - 1)
    /\ SearchCalls = 2
    /\ net[1].outcome = "ok"

-----------------------------------------------------------------------------
(* C4 *)

\* C4: a request to a composite route whose body has no jobTitle (absent or
\* empty) is answered 400 with 'Missing required parameter: jobTitle is
\* required', and no upstream call and no export is made for it.
C4_MissingJobTitleRejected ==
    (InRequest /\ entry \in CompositeRoutes /\ body.jobTitle \in {"absent", "empty"}) =>
        /\ pc = "done"
        /\ responses = <<[status |-> 400, kind |-> "error",
                          error |-> "Missing required parameter: jobTitle is required",
                          results |-> <<>>]>>
        /\ net = <<>>
        /\ exportData = NoData
        /\ doc = Fresh.doc

\* an empty jobTitle was rejected on /api/search-to-excel, credentials in place
C4_Witness ==
    /\ pc = "done"
    /\ entry = "/api/search-to-excel"
    /\ body.jobTitle = "empty"
    /\ CredentialsConfigured
    /\ Len(responses) = 1
    /\ responses[1].status = 400

-----------------------------------------------------------------------------
(* C5 *)

\* C5: when GOOGLE_API_KEY or GOOGLE_CX is unset, every request that reaches
\* the search step is answered 500 with the message naming the missing
\* credentials, and no network call is made for it.
C5_MissingCredentials ==
    (InRequest /\ ReachesSearch /\ (~env.apiKey \/ ~env.cx)) =>
        /\ pc = "done"
        /\ responses = <<[status |-> 500, kind |-> "error",
                          error |-> MsgMissingGoogle, results |-> <<>>]>>
        /\ net = <<>>
        /\ exportData = NoData

\* only GOOGLE_CX is unset and a composite request with a jobTitle was refused
C5_Witness ==
    /\ pc = "done"
    /\ env.apiKey
    /\ ~env.cx
    /\ entry = "/api/search-to-spreadsheet"
    /\ body.jobTitle = "string"
    /\ Len(responses) = 1
    /\ responses[1].status = 500

-----------------------------------------------------------------------------
(* C6 *)

\* exportToExcelHandler ran for the request
ExcelExportRan ==
    /\ entry \in {"/api/search-to-excel", "exportToExcelHandler"}
    /\ exportData.kind # "none"

\* C6: exportToExcelHandler answers 400 and sends no file whenever its data
\* is missing, is no array, or is an empty array; a /api/search-to-excel
\* request whose search ends with zero results ends with 400, not a file.
C6_EmptyExportRejected ==
    /\ (ExcelExportRan /\ (exportData.kind # "array" \/ Len(exportData.items) = 0)) =>
          /\ pc = "done"
          /\ responses = <<[status |-> 400, kind |-> "error",
                            error |-> MsgInvalidData, results |-> <<>>]>>
    /\ \A k \in 1..Len(responses) :
          responses[k].kind = "file" => Len(responses[k].results) > 0

\* a /api/search-to-excel search came back empty and the export answered 400
C6_Witness ==
    /\ pc = "done"
    /\ entry = "/api/search-to-excel"
    /\ SearchCalls >= 1
    /\ exportData = ArrayData(<<>>)
    /\ Len(responses) = 1
    /\ responses[1].status = 400

-----------------------------------------------------------------------------
(* C7 *)

\* C7: if an upstream search call fails, also one for a later page, the
\* answer is 500 with {error: the upstream message}; the items collected so
\* far are not returned, no further call is made, and the export step of a
\* composite route is never started.
C7_SearchFailure ==
    \A k \in 1..Len(net) :
        (net[k].api = "search" /\ Failed(k)) =>
            /\ k = Len(net)
            /\ pc = "done"
            /\ responses = <<[status |-> 500, kind |-> "error",
                              error |-> net[k].outcome, results |-> <<>>]>>
            /\ exportData = NoData
            /\ doc = Fresh.doc

\* the second page of a composite request failed after the first brought items
C7_Witness ==
    /\ pc = "done"
    /\ entry \in CompositeRoutes
    /\ Len(net) = 2
    /\ Failed(2)
    /\ Len(allResults) > 0

-----------------------------------------------------------------------------
(* C8 *)

\* C8, as stated: a request without a job title is refused on every route
\* that takes jobTitle, /api/search and /google_search included: it triggers
\* no upstream search call and never gets a 200.  (The claim also asks for
\* status 400; what is stated here is weaker, so its violation violates the
\* claim.)
C8_AsStated ==
    (InRequest /\ entry \in SearchRoutes \cup CompositeRoutes
       /\ body.jobTitle \in {"absent", "empty"}) =>
        /\ SearchCalls = 0
        /\ \A k \in 1..Len(responses) : responses[k].status # 200

-----------------------------------------------------------------------------
(* C9 *)

\* C9, as stated (the part a finite run decides): a request to /api/search or
\* to a composite route gets at most one response, has exactly one when its
\* handling is over, and every failure is answered as a JSON {error} body.
C9_AsStated ==
    (InRequest /\ entry \in {"/api/search"} \cup CompositeRoutes) =>
        /\ Len(responses) <= 1
        /\ (pc = "done") => Len(responses) = 1
        /\ \A k \in 1..Len(responses) :
              responses[k].status >= 400 => responses[k].kind = "error"

\* under LiveSpec: every request is eventually answered, exactly once
C9_EventuallyAnswered ==
    /\ [](Len(responses) <= 1)
    /\ (InRequest ~> (pc = "done" /\ Len(responses) = 1))

\* a request starts from the state of a fresh server, whatever came before it
C9_NothingLeftBehind ==
    [][(pc = "idle" /\ pc' # "idle") =>
          \/ Len(net') = 0
          \/ /\ Len(net') = 1
             /\ net'[1].outcome = "pending"
             /\ allResults' = <<>>
             /\ i' = 0
             /\ doc' = Fresh.doc
             /\ responses' = <<>>]_vars

-----------------------------------------------------------------------------
(* C10 *)

SheetApis == <<"sheets.create", "sheets.update", "drive.permissions">>

\* how far the document got when the k-th spreadsheet call is the last one made
DocAfter(k, ok) ==
    LET done == IF ok THEN k ELSE k - 1
    IN  [exists |-> done >= 1, hasData |-> done >= 2, public |-> done >= 3]

\* C10: createSpreadsheetHandler calls create, update, permissions in that
\* order; success is answered only after all three succeeded; a failing step
\* is answered 500 with no later step and no rollback, so a failure leaves no
\* document, a document without data and permission, or a document with data
\* and without permission; a document is never public without its rows.
C10_SpreadsheetSteps ==
    LET calls == SheetCalls
        n == Len(calls)
    IN  /\ n <= 3
        /\ \A k \in 1..n : calls[k].api = SheetApis[k]
        /\ \A k \in 1..n : k < n => calls[k].outcome = "ok"
        /\ n > 0 => doc = DocAfter(n, calls[n].outcome = "ok")
        /\ n = 0 => doc = Fresh.doc
        /\ doc.public => doc.hasData
        /\ doc.hasData => doc.exists
        /\ \A k \in 1..Len(responses) :
              /\ responses[k].kind \in {"summary", "sheet"} =>
                    /\ n = 3
                    /\ calls[3].outcome = "ok"
                    /\ doc = [exists |-> TRUE, hasData |-> TRUE, public |-> TRUE]
              /\ (n > 0 /\ calls[n].outcome \in UpstreamMsgs) =>
                    /\ responses[k] = [status |-> 500, kind |-> "error",
                                       error |-> calls[n].outcome, results |-> <<>>]
                    /\ ~doc.public
        /\ (n > 0 /\ calls[n].outcome \in UpstreamMsgs) => pc = "done"

\* the permission step failed: the document has its rows and is not public
C10_Witness ==
    /\ pc = "done"
    /\ Len(SheetCalls) = 3
    /\ SheetCalls[3].outcome \in UpstreamMsgs
    /\ doc = [exists |-> TRUE, hasData |-> TRUE, public |-> FALSE]
    /\ Len(responses) = 1
    /\ responses[1].status = 500

\* the two other failure states, and the success
C10_WitnessNoDocument ==
    /\ pc = "done"
    /\ Len(SheetCalls) = 1
    /\ SheetCalls[1].outcome \in UpstreamMsgs
    /\ doc = Fresh.doc

C10_WitnessNoData ==
    /\ pc = "done"
    /\ Len(SheetCalls) = 2
    /\ SheetCalls[2].outcome \in UpstreamMsgs
    /\ doc = [exists |-> TRUE, hasData |-> FALSE, public |-> FALSE]

C10_WitnessSuccess ==
    /\ pc = "done"
    /\ Len(responses) = 1
    /\ responses[1].kind = "summary"
    /\ doc.public

-----------------------------------------------------------------------------
(* C11 *)

\* both exports built their rows from the data
BothBuilt == values # <<>> /\ worksheetData # <<>>

\* every field of every listing of the data is there (it may be empty)
AllFieldsPresent ==
    \A k \in 1..Len(exportData.items) :
        /\ exportData.items[k].title # Undefined
        /\ exportData.items[k].link # Undefined
        /\ exportData.items[k].snippet # Undefined
        /\ exportData.items[k].source # Undefined

\* C11, as stated: for every non-empty sequence of listings, also with absent
\* or empty fields, the rows of the file export are the rows of the
\* spreadsheet export: the header row, then [title, link, snippet, source]
\* per listing in input order.
C11_AsStated ==
    BothBuilt =>
        /\ worksheetData = values
        /\ Len(worksheetData) = Len(exportData.items) + 1
        /\ worksheetData[1] = <<"Title", "Link", "Description", "Source">>
        /\ \A k \in 1..Len(exportData.items) :
              worksheetData[k + 1] =
                  <<exportData.items[k].title, exportData.items[k].link,
                    exportData.items[k].snippet, exportData.items[k].source>>

\* what holds of the two builders: same header, same number of rows in input
\* order, and the same rows when no field is absent
C11_SameRowsWhenPresent ==
    BothBuilt =>
        /\ Len(worksheetData) = Len(values)
        /\ Len(values) = Len(exportData.items) + 1
        /\ worksheetData[1] = values[1]
        /\ values[1] = <<"Title", "Link", "Description", "Source">>
        /\ AllFieldsPresent => worksheetData = values

\* both built their rows from two listings, one with an empty snippet
C11_WitnessPresent ==
    /\ BothBuilt
    /\ AllFieldsPresent
    /\ Len(exportData.items) = 2
    /\ exportData.items[1].snippet = ""
    /\ exportData.items[2].title = "x"

====
